---- MODULE Spec2Model ----
(***************************************************************************)
(* django-autotranslate: the backend resolver (autotranslate/config.py)    *)
(* and the three translator services (autotranslate/services.py).          *)
(*                                                                         *)
(* One behaviour is: a Django settings module and a set of installed       *)
(* optional packages; one construction of a backend, either through        *)
(* get_translator() or by calling a service class directly; one call of    *)
(* translate_strings() on the instance; a consumer pulling the returned    *)
(* generator with next(); the provider answering or failing each request.  *)
(***************************************************************************)
EXTENDS Integers, Sequences, FiniteSets, TLC

VARIABLES
    settings,   \* django.conf.settings: [service, key]
    installed,  \* the optional packages that can be imported
    called,     \* the construction call the application made: [fn, cls]
    result,     \* what the construction call did: returned / raised
    instance,   \* the constructed backend: [cls, max_segments, service]
    builds,     \* provider clients built so far (the key each was built with)
    S,          \* the caller's sequence passed to translate_strings
    lang,       \* <<target_language, source_language>> of the call
    pc,         \* where the translate_strings call / its generator stands
    strings,    \* the generator's local variable `strings`
    pos,        \* position of the generator's iterator (for / genexpr)
    pending,    \* provider items of the current response not yet yielded
    requests,   \* provider requests issued, in issue order
    out,        \* values the consumer received from next(), in order
    asked,      \* number of next() calls the consumer made
    inflight,   \* the request the provider is working on
    fault,      \* the exception the provider raised
    err         \* the exception that reached the caller / consumer

vars == <<settings, installed, called, result, instance, builds, S, lang, pc, strings,
          pos, pending, inflight, requests, out, asked, fault, err>>

(***************************************************************************)
(* Bounds of the model.                                                    *)
(***************************************************************************)
MaxLen == 3     \* longest input sequence
MaxSeg == 2     \* largest explicit max_segments argument
NegSeg == 1     \* max_segments arguments go down to -NegSeg

\* the log of requests saturates here; a run with max_segments >= 1 issues
\* at most MaxLen requests, so only a non-terminating loop ever reaches it
MaxLog == MaxLen + 2

(***************************************************************************)
(* Program constants.                                                      *)
(***************************************************************************)
DefaultMaxSegments == 128
SERVICE_SETTING == "AUTOTRANSLATE_TRANSLATOR_SERVICE"

(***************************************************************************)
(* Python values a setting can hold.                                       *)
(***************************************************************************)
Type(n) == [kind |-> "type", name |-> n]
Str(n) == [kind |-> "str", name |-> n]
Func(n) == [kind |-> "function", name |-> n]
NoneValue == [kind |-> "none", name |-> "None"]
IntValue == [kind |-> "int", name |-> "42"]
Absent == [kind |-> "absent", name |-> ""]
ImportFailed == [kind |-> "ImportError", name |-> ""]

BaseTranslatorService == "BaseTranslatorService"
GoogleTranslatorService == "GoogleTranslatorService"
GoogleAPITranslatorService == "GoogleAPITranslatorService"
AmazonTranslateTranslatorService == "AmazonTranslateTranslatorService"

Backends == {GoogleTranslatorService, GoogleAPITranslatorService,
             AmazonTranslateTranslatorService}

\* the class statement's base of each class (object for the roots)
BaseOf(c) ==
    IF c \in Backends THEN BaseTranslatorService ELSE "object"

\* the method resolution order of a class, as a set
RECURSIVE Mro(_)
Mro(c) == IF c = "object" THEN {"object"} ELSE {c} \cup Mro(BaseOf(c))

\* Python's issubclass(cls, classinfo) for two classes
issubclass(cls, classinfo) == classinfo \in Mro(cls)

\* django.utils.module_loading.import_string on the dotted paths used here
import_string(path) ==
    CASE path = "autotranslate.services.GoogleAPITranslatorService"
            -> Type(GoogleAPITranslatorService)
      [] path = "autotranslate.services.AmazonTranslateTranslatorService"
            -> Type(AmazonTranslateTranslatorService)
      [] path = "django.utils.module_loading.import_string"
            -> Func("import_string")
      [] OTHER -> ImportFailed

(***************************************************************************)
(* Outcomes of a call: a returned instance or a raised exception.          *)
(***************************************************************************)
NoInstance == [cls |-> "", max_segments |-> 0, service |-> "unset"]
Instance(c, m, s) == [cls |-> c, max_segments |-> m, service |-> s]

NoResult ==
    [kind |-> "none", exc |-> "", template |-> "", value |-> Absent,
     setting |-> "", inst |-> NoInstance, built |-> <<>>]
Returned(inst, b) ==
    [kind |-> "returned", exc |-> "", template |-> "", value |-> Absent,
     setting |-> "", inst |-> inst, built |-> b]
Raised(exc, template, value, setting) ==
    [kind |-> "raised", exc |-> exc, template |-> template, value |-> value,
     setting |-> setting, inst |-> NoInstance, built |-> <<>>]

(***************************************************************************)
(* The constructors.                                                       *)
(***************************************************************************)
\* object() and BaseTranslatorService(): no __init__ of their own
PlainInit(c) == Returned(Instance(c, 0, "none"), <<>>)

GoogleTranslatorServiceInit(env) ==
    IF "googletrans" \notin env.installed
    THEN Raised("ImportError", "No module named", Str("googletrans"), "")
    ELSE Returned(Instance(GoogleTranslatorService, 0, "googletrans.Translator"),
                  <<"googletrans.Translator">>)

\* a fault: build() called without the key having been checked
GoogleAPITranslatorServiceInitNoKeyCheck(env, max_segments) ==
    IF "googleapiclient" \notin env.installed
    THEN Raised("ImportError", "requires the package",
                Str("google-api-python-client"), "")
    ELSE Returned(Instance("GoogleAPITranslatorService", max_segments,
                           "googleapiclient.translate.v2"),
                  <<"googleapiclient.build">>)

\* the order of the code: the import, the key check, build(), the fields
GoogleAPITranslatorServiceInit(env, max_segments) ==
    IF "googleapiclient" \notin env.installed
    THEN Raised("ImportError", "requires the package",
                Str("google-api-python-client"), "")
    ELSE IF env.key \in {"None", ""}
    THEN Raised("ImproperlyConfigured", "is not configured",
                Str(GoogleAPITranslatorService), "GOOGLE_TRANSLATE_KEY")
    ELSE Returned(Instance(GoogleAPITranslatorService, max_segments,
                           "googleapiclient.translate.v2"),
                  <<"googleapiclient.build">>)

AmazonTranslateTranslatorServiceInit(env) ==
    IF "boto3" \notin env.installed
    THEN Raised("ImportError", "requires the package", Str("boto3"), "")
    ELSE Returned(Instance(AmazonTranslateTranslatorService, 0, "boto3.translate"),
                  <<"boto3.client">>)

\* cls(*args): max_segments is DefaultMaxSegments when no argument is given
Construct(c, max_segments, env) ==
    CASE c = GoogleTranslatorService -> GoogleTranslatorServiceInit(env)
      [] c = GoogleAPITranslatorService
            -> GoogleAPITranslatorServiceInit(env, max_segments)
      [] c = AmazonTranslateTranslatorService
            -> AmazonTranslateTranslatorServiceInit(env)
      [] OTHER -> PlainInit(c)

(***************************************************************************)
(* config.get_translator()                                                 *)
(***************************************************************************)
\* getattr(settings, SERVICE_SETTING, GoogleTranslatorService)
SettingOrDefault(st) ==
    IF st.service = Absent THEN Type(GoogleTranslatorService) ELSE st.service

\* `translator is None or not issubclass(BaseTranslatorService, translator)`
FailsValidation(translator) ==
    translator = NoneValue
    \/ ~issubclass(BaseTranslatorService, translator.name)

get_translator(st, env) ==
    LET given == SettingOrDefault(st)
        translator == IF given.kind = "str" THEN import_string(given.name)
                      ELSE given
    IN  IF translator = ImportFailed
        THEN Raised("ImproperlyConfigured", "Could not import", given,
                    "settings." \o SERVICE_SETTING)
        ELSE IF translator # NoneValue /\ translator.kind # "type"
        THEN \* issubclass() arg 2 must be a class
             Raised("TypeError", "issubclass() arg 2 must be a class",
                    translator, "")
        ELSE IF FailsValidation(translator)
        THEN Raised("ImproperlyConfigured",
                    "does not subclass BaseTranslatorService", translator,
                    "settings." \o SERVICE_SETTING)
        ELSE Construct(translator.name, DefaultMaxSegments, env)

(***************************************************************************)
(* Python sequence operations.                                             *)
(***************************************************************************)
Min(a, b) == IF a < b THEN a ELSE b
Max(a, b) == IF a > b THEN a ELSE b

\* the index a slice bound m denotes in a sequence of length n
SliceIndex(m, n) == IF m < 0 THEN Max(n + m, 0) ELSE Min(m, n)

\* s[:m]
SliceTo(s, m) == SubSeq(s, 1, SliceIndex(m, Len(s)))

\* s[m:]
SliceFrom(s, m) == SubSeq(s, SliceIndex(m, Len(s)) + 1, Len(s))

(***************************************************************************)
(* The providers.  A provider answers a request with one translation per   *)
(* submitted item, in submission order, or fails.                          *)
(***************************************************************************)
Texts == {"a", "b"}
Langs == {<<"fr", "en">>, <<"de", "es">>}
ProviderErrors == {"HttpError"}

\* the provider's translation of one text
Translation(text, lg) == lg[1] \o "<" \o text

NoRequest == [api |-> "", q |-> <<>>, target |-> "", source |-> ""]
Request(api, q, lg) == [api |-> api, q |-> q, target |-> lg[1], source |-> lg[2]]

\* the items of the provider's answer to a request, in the provider's shape
Answer(req) ==
    [i \in 1..Len(req.q) |->
        LET tr == Translation(req.q[i], <<req.target, req.source>>)
        IN  CASE req.api = "googletrans.translate" -> [text |-> tr]
              [] req.api = "translations.list" -> [translatedText |-> tr]
              [] OTHER -> [TranslatedText |-> tr]]

\* the request log; it keeps the first MaxLog requests
Logged(log, req) == IF Len(log) < MaxLog THEN Append(log, req) ELSE log

(***************************************************************************)
(* The state after the settings are loaded and before anything is called.  *)
(***************************************************************************)
Packages == {"googletrans", "googleapiclient", "boto3"}
KeySettings == {"None", "", "k"}   \* "None": GOOGLE_TRANSLATE_KEY is absent
ServiceSettings ==
    {Absent, NoneValue, IntValue,
     Type("object"), Type("dict"), Type(BaseTranslatorService),
     Type(GoogleTranslatorService), Type(GoogleAPITranslatorService),
     Type(AmazonTranslateTranslatorService),
     Str("autotranslate.services.GoogleAPITranslatorService"),
     Str("autotranslate.services.AmazonTranslateTranslatorService"),
     Str("django.utils.module_loading.import_string"),
     Str("no.such.Backend")}

SegmentValues == ((0 - NegSeg)..MaxSeg) \cup {DefaultMaxSegments}

RECURSIVE SeqsUpTo(_)
SeqsUpTo(n) ==
    IF n = 0 THEN {<<>>}
    ELSE LET shorter == SeqsUpTo(n - 1)
         IN  shorter \cup {Append(s, x) : s \in shorter, x \in Texts}
Inputs == SeqsUpTo(MaxLen)

NoCall == [fn |-> "", cls |-> ""]
Call(fn, c) == [fn |-> fn, cls |-> c]

Env == [installed |-> installed, key |-> settings.key]

Init ==
    /\ settings \in [service : ServiceSettings, key : KeySettings]
    /\ installed \in SUBSET Packages
    /\ called = NoCall
    /\ result = NoResult
    /\ instance = NoInstance
    /\ builds = <<>>
    /\ S = <<>>
    /\ lang = <<"", "">>
    /\ pc = "idle"
    /\ strings = <<>>
    /\ pos = 0
    /\ pending = <<>>
    /\ inflight = NoRequest
    /\ requests = <<>>
    /\ out = <<>>
    /\ asked = 0
    /\ fault = ""
    /\ err = ""

genvars == <<S, lang, pc, strings, pos, pending, inflight, requests, out,
             asked, fault, err>>
envvars == <<settings, installed>>
objvars == <<called, result, instance, builds>>

(***************************************************************************)
(* Construction.                                                           *)
(***************************************************************************)
Constructed(r) ==
    /\ result' = r
    /\ instance' = r.inst
    /\ builds' = builds \o r.built
    /\ UNCHANGED <<envvars, genvars>>

\* the application calls config.get_translator()
GetTranslator ==
    /\ called = NoCall
    /\ called' = Call("get_translator", "")
    /\ Constructed(get_translator(settings, Env))

\* the application calls a service class itself
ConstructDirect(c, m) ==
    /\ called = NoCall
    /\ called' = Call("construct", c)
    /\ Constructed(Construct(c, m, Env))

(***************************************************************************)
(* translate_strings(strings, target_language, source_language)            *)
(***************************************************************************)
\* BaseTranslatorService.translate_strings: raises at the call
BaseTranslateStrings(s, lg) ==
    /\ instance.cls = BaseTranslatorService
    /\ pc' = "failed"
    /\ err' = "NotImplementedError"
    /\ UNCHANGED <<strings, pos, pending, inflight, requests, out, asked, fault>>

\* GoogleTranslatorService.translate_strings: an ordinary function; the
\* request for list(strings) is made by the call itself
GoogleTranslateStrings(s, lg) ==
    /\ instance.cls = GoogleTranslatorService
    /\ inflight' = Request("googletrans.translate", s, lg)
    /\ requests' = Logged(requests, inflight')
    /\ pc' = "calling"
    /\ UNCHANGED <<strings, pos, pending, out, asked, fault, err>>

\* the generator functions: the call only creates the generator
GeneratorTranslateStrings(s, lg) ==
    /\ instance.cls \in {GoogleAPITranslatorService,
                         AmazonTranslateTranslatorService}
    /\ strings' = s
    /\ pc' = "created"
    /\ UNCHANGED <<pos, pending, inflight, requests, out, asked, fault, err>>

TranslateStrings(s, lg) ==
    /\ result.kind = "returned"
    /\ pc = "idle"
    /\ S' = s
    /\ lang' = lg
    /\ \/ BaseTranslateStrings(s, lg)
       \/ GoogleTranslateStrings(s, lg)
       \/ GeneratorTranslateStrings(s, lg)
    /\ UNCHANGED <<envvars, objvars>>

(***************************************************************************)
(* The consumer.                                                           *)
(***************************************************************************)
\* a fault: every generator resumed at the head of its loop
ResumePointLoop(cls) == "loop"

\* where next() resumes a suspended generator: inside `yield from` for the
\* Google API service, at the head of the for loop for the other two
ResumePoint(cls) ==
    IF cls = GoogleAPITranslatorService THEN "yielding" ELSE "loop"

\* next(generator): runs the generator up to its next yield
ConsumerNext ==
    /\ pc \in {"created", "suspended"}
    /\ asked' = asked + 1
    /\ pc' = IF pc = "created" THEN "loop" ELSE ResumePoint(instance.cls)
    /\ UNCHANGED <<envvars, objvars, S, lang, strings, pos, pending, inflight,
                   requests, out, fault, err>>

(***************************************************************************)
(* GoogleTranslatorService: (item.text for item in translations)           *)
(***************************************************************************)
GoogleGenexprStep ==
    /\ instance.cls = GoogleTranslatorService
    /\ pc = "loop"
    /\ IF pos < Len(pending)
       THEN /\ pos' = pos + 1
            /\ out' = Append(out, pending[pos + 1].text)
            /\ pc' = "suspended"
       ELSE /\ pc' = "done"
            /\ UNCHANGED <<pos, out>>
    /\ UNCHANGED <<envvars, objvars, S, lang, strings, pending, inflight,
                   requests, asked, fault, err>>

(***************************************************************************)
(* GoogleAPITranslatorService.translate_strings                            *)
(***************************************************************************)
\* a fault: one item more than max_segments in a request
GoogleAPIChunkOver(strs, max_segments) == SliceTo(strs, max_segments + 1)

\* q=strings[: self.max_segments]
GoogleAPIChunk(strs, max_segments) == SliceTo(strs, max_segments)

\* a fault: the slice start off by one, dropping an item per chunk
GoogleAPIRestSkips(strs, max_segments) == SliceFrom(strs, max_segments + 1)

\* a fault: the remaining input never shortened
GoogleAPIRestKeeps(strs, max_segments) == strs

\* strings = strings[self.max_segments :]
GoogleAPIRest(strs, max_segments) == SliceFrom(strs, max_segments)

\* `while strings:` and the request of the loop body
GoogleAPILoop ==
    /\ instance.cls = GoogleAPITranslatorService
    /\ pc = "loop"
    /\ IF strings # <<>>
       THEN /\ inflight' = Request("translations.list",
                                   GoogleAPIChunk(strings, instance.max_segments),
                                   lang)
            /\ requests' = Logged(requests, inflight')
            /\ pc' = "awaiting"
       ELSE /\ pc' = "done"
            /\ UNCHANGED <<inflight, requests>>
    /\ UNCHANGED <<envvars, objvars, S, lang, strings, pos, pending, out,
                   asked, fault, err>>

\* `yield from (t.get("translatedText") for t in ...)`, then the slice
GoogleAPIYieldFrom ==
    /\ instance.cls = GoogleAPITranslatorService
    /\ pc = "yielding"
    /\ IF pending # <<>>
       THEN /\ out' = Append(out, Head(pending).translatedText)
            /\ pending' = Tail(pending)
            /\ pc' = "suspended"
            /\ UNCHANGED strings
       ELSE /\ strings' = GoogleAPIRest(strings, instance.max_segments)
            /\ pc' = "loop"
            /\ UNCHANGED <<out, pending>>
    /\ UNCHANGED <<envvars, objvars, S, lang, pos, inflight, requests, asked,
                   fault, err>>

(***************************************************************************)
(* AmazonTranslateTranslatorService.translate_strings                      *)
(***************************************************************************)
\* a fault: the language codes of translate_text swapped
AmazonRequestSwapped(text, lg) == Request("translate_text", <<text>>, <<lg[2], lg[1]>>)

\* translate_string: translate_text(Text=text, SourceLanguageCode=...,
\* TargetLanguageCode=...)
AmazonRequest(text, lg) == Request("translate_text", <<text>>, lg)

\* `for text in strings:` and the translate_text call of translate_string
AmazonLoop ==
    /\ instance.cls = AmazonTranslateTranslatorService
    /\ pc = "loop"
    /\ IF pos < Len(strings)
       THEN /\ pos' = pos + 1
            /\ inflight' = AmazonRequest(strings[pos + 1], lang)
            /\ requests' = Logged(requests, inflight')
            /\ pc' = "awaiting"
       ELSE /\ pc' = "done"
            /\ UNCHANGED <<pos, inflight, requests>>
    /\ UNCHANGED <<envvars, objvars, S, lang, strings, pending, out, asked,
                   fault, err>>

\* `yield self.translate_string(...)`: response["TranslatedText"]
AmazonYield ==
    /\ instance.cls = AmazonTranslateTranslatorService
    /\ pc = "yielding"
    /\ out' = Append(out, Head(pending).TranslatedText)
    /\ pending' = Tail(pending)
    /\ pc' = "suspended"
    /\ UNCHANGED <<envvars, objvars, S, lang, strings, pos, inflight, requests,
                   asked, fault, err>>

(***************************************************************************)
(* The provider.                                                           *)
(***************************************************************************)
\* a fault: the provider's exception wrapped in another one
PropagatedWrapped(e) == "TranslationError"

\* what reaches the caller when the provider call raises e: nothing in
\* translate_strings catches it
Propagated(e) == e

ProviderAnswers ==
    /\ pc \in {"calling", "awaiting"}
    /\ pending' = Answer(inflight)
    /\ inflight' = NoRequest
    /\ pc' = IF pc = "calling" THEN "created" ELSE "yielding"
    /\ UNCHANGED <<envvars, objvars, S, lang, strings, pos, requests, out,
                   asked, fault, err>>

ProviderFails(e) ==
    /\ pc \in {"calling", "awaiting"}
    /\ fault' = e
    /\ err' = Propagated(e)
    /\ inflight' = NoRequest
    /\ pc' = "failed"
    /\ UNCHANGED <<envvars, objvars, S, lang, strings, pos, pending, requests,
                   out, asked>>

(***************************************************************************)
(* The specification.                                                      *)
(***************************************************************************)
GeneratorStep ==
    \/ GoogleGenexprStep
    \/ GoogleAPILoop
    \/ GoogleAPIYieldFrom
    \/ AmazonLoop
    \/ AmazonYield

Next ==
    \/ GetTranslator
    \/ \E c \in Backends \cup {BaseTranslatorService} :
         \E m \in IF c = GoogleAPITranslatorService THEN SegmentValues ELSE {0} :
           ConstructDirect(c, m)
    \/ \E s \in Inputs, lg \in Langs : TranslateStrings(s, lg)
    \/ ConsumerNext
    \/ GeneratorStep
    \/ ProviderAnswers
    \/ \E e \in ProviderErrors : ProviderFails(e)

Spec == Init /\ [][Next]_vars

\* Python runs a resumed generator to its next yield, the provider answers
\* or fails every request, and the consumer drains the generator
FairSpec ==
    /\ Spec
    /\ WF_vars(GeneratorStep)
    /\ WF_vars(ProviderAnswers)
    /\ WF_vars(ConsumerNext)

(***************************************************************************)
(* Vocabulary of the properties.                                           *)
(***************************************************************************)
Ceil(a, b) == (a + b - 1) \div b

\* the provider's translations of a sequence of texts, item by item
Translated(texts, lg) == [i \in 1..Len(texts) |-> Translation(texts[i], lg)]

\* the type a setting value names: the value itself or what its path imports
NamedType(v) == IF v.kind = "str" THEN import_string(v.name) ELSE v

\* the value names a type that is a subclass of BaseTranslatorService
Conforming(v) ==
    /\ NamedType(v).kind = "type"
    /\ issubclass(NamedType(v).name, BaseTranslatorService)

\* the packages and the key the constructor of class c needs are there
Usable(c) ==
    /\ c = GoogleTranslatorService => "googletrans" \in installed
    /\ c = GoogleAPITranslatorService =>
           "googleapiclient" \in installed /\ settings.key = "k"
    /\ c = AmazonTranslateTranslatorService => "boto3" \in installed

Resolved == called.fn = "get_translator"

ConfigurationError(value) ==
    /\ result.kind = "raised"
    /\ result.exc = "ImproperlyConfigured"
    /\ result.value = value
    /\ result.setting = "settings." \o SERVICE_SETTING

(***************************************************************************)
(* C1: for every setting value that is a subclass of BaseTranslatorService *)
(* or a dotted path importing to one (its constructor's packages and key   *)
(* being available), get_translator() raises nothing and returns a new     *)
(* instance of exactly that type, built with no arguments.                 *)
(***************************************************************************)
C1_ConformingReturnsInstance ==
    (Resolved /\ Conforming(settings.service)
              /\ Usable(NamedType(settings.service).name))
    => /\ result.kind = "returned"
       /\ instance.cls = NamedType(settings.service).name
       /\ instance.cls = GoogleAPITranslatorService
            => instance.max_segments = DefaultMaxSegments

(***************************************************************************)
(* C2: for every setting value that is None, a type that is no subclass of *)
(* BaseTranslatorService, a value that is neither a type nor a string, or  *)
(* a string that cannot be imported, get_translator() builds no instance   *)
(* and raises ImproperlyConfigured naming the offending value and          *)
(* settings.AUTOTRANSLATE_TRANSLATOR_SERVICE.                              *)
(***************************************************************************)
C2_NonConformingRaisesConfiguration ==
    (Resolved /\ settings.service # Absent /\ ~Conforming(settings.service))
    => /\ \/ ConfigurationError(settings.service)
          \/ ConfigurationError(NamedType(settings.service))
       /\ instance = NoInstance
       /\ builds = <<>>

(***************************************************************************)
(* C3: with the setting absent (and googletrans installed),                *)
(* get_translator() returns an instance of GoogleTranslatorService.        *)
(***************************************************************************)
C3_AbsentSelectsDefault ==
    (Resolved /\ settings.service = Absent /\ "googletrans" \in installed)
    => /\ result.kind = "returned"
       /\ instance.cls = GoogleTranslatorService

(***************************************************************************)
(* Vocabulary of the translate_strings properties.                         *)
(***************************************************************************)
IsGoogleAPI == instance.cls = GoogleAPITranslatorService
IsAmazon == instance.cls = AmazonTranslateTranslatorService
IsGoogle == instance.cls = GoogleTranslatorService
M == instance.max_segments
N == Len(S)

\* the k-th consecutive slice of S of width M
Slice(k) == SubSeq(S, (k - 1) * M + 1, Min(k * M, N))

\* what the provider raised reached the consumer
ProviderFailed == pc = "failed" /\ fault # ""

(***************************************************************************)
(* C4: GoogleAPITranslatorService.translate_strings with max_segments      *)
(* M >= 1: no request carries more than M items or none, the k-th request  *)
(* carries exactly the consecutive input slice [(k-1)M, min(kM, N)), and   *)
(* once the generator is exhausted exactly ceil(N/M) requests were issued. *)
(***************************************************************************)
C4_ChunksPartitionInput ==
    (IsGoogleAPI /\ M >= 1)
    => /\ \A k \in 1..Len(requests) :
            /\ requests[k].q = Slice(k)
            /\ Len(requests[k].q) \in 1..M
       /\ pc = "done" => Len(requests) = Ceil(N, M)

C4_Witness ==
    /\ IsGoogleAPI /\ M = 2 /\ N = 3 /\ pc = "done"
    /\ Len(requests) = 2
    /\ Len(requests[1].q) = 2 /\ Len(requests[2].q) = 1

\* what a backend has produced so far, against the input
C5_Produced ==
    instance.cls \in Backends
    => /\ Len(out) <= N
       /\ out = Translated(SubSeq(S, 1, Len(out)), lang)
       /\ pc = "done" => Len(out) = N

(***************************************************************************)
(* C5: for each of the three backends, with a provider that answers one    *)
(* translation per item in order, what translate_strings has produced is   *)
(* at every moment the translations of a prefix of S, item by item; it is  *)
(* all len(S) of them when the generator is exhausted; and the caller's    *)
(* sequence S is never changed.                                            *)
(***************************************************************************)
C5_ResultsAlignedWithInput ==
    /\ []C5_Produced
    /\ [][pc # "idle" => S' = S]_vars

C5_Witness ==
    /\ IsGoogleAPI /\ M = 1 /\ pc = "done"
    /\ N = 3 /\ S[1] # S[2]
    /\ Len(out) = 3

(***************************************************************************)
(* C7: AmazonTranslateTranslatorService.translate_strings: the i-th        *)
(* provider call carries exactly the i-th input item, with the target and  *)
(* source language of the call, and once the generator is exhausted        *)
(* exactly N calls were made.                                              *)
(***************************************************************************)
C7_OneCallPerItemInOrder ==
    IsAmazon
    => /\ \A i \in 1..Len(requests) :
            requests[i] = [api |-> "translate_text", q |-> <<S[i]>>,
                           target |-> lang[1], source |-> lang[2]]
       /\ Len(requests) <= N
       /\ pc = "done" => Len(requests) = N

C7_Witness ==
    /\ IsAmazon /\ pc = "done" /\ N = 3 /\ S[1] # S[3]
    /\ Len(requests) = 3

(***************************************************************************)
(* Vocabulary of the GoogleAPITranslatorService constructor properties.    *)
(***************************************************************************)
\* GoogleAPITranslatorService(...) was called with no usable key configured
KeylessConstruction ==
    /\ called = Call("construct", GoogleAPITranslatorService)
    /\ settings.key \in {"None", ""}

NothingBuiltNothingSent ==
    /\ builds = <<>>
    /\ requests = <<>>
    /\ instance = NoInstance

(***************************************************************************)
(* C6 as stated: constructing GoogleAPITranslatorService with              *)
(* GOOGLE_TRANSLATE_KEY absent or empty always fails with                  *)
(* ImproperlyConfigured, no client built and no request issued.            *)
(***************************************************************************)
C6_AlwaysConfigurationError ==
    KeylessConstruction
    => /\ result.kind = "raised"
       /\ result.exc = "ImproperlyConfigured"
       /\ NothingBuiltNothingSent

(***************************************************************************)
(* C6 amended: constructing GoogleAPITranslatorService with                *)
(* GOOGLE_TRANSLATE_KEY absent or empty always fails, with                 *)
(* ImproperlyConfigured naming GOOGLE_TRANSLATE_KEY when googleapiclient   *)
(* can be imported and with ImportError when it cannot; either way no      *)
(* client is built, no request is issued and no instance is returned; and  *)
(* no returned instance of the class has an unset service handle.          *)
(***************************************************************************)
C6_KeylessConstructionFails ==
    /\ KeylessConstruction
       => /\ result.kind = "raised"
          /\ IF "googleapiclient" \in installed
             THEN /\ result.exc = "ImproperlyConfigured"
                  /\ result.setting = "GOOGLE_TRANSLATE_KEY"
             ELSE result.exc = "ImportError"
          /\ NothingBuiltNothingSent
    /\ (result.kind = "returned" /\ IsGoogleAPI)
       => /\ instance.service # "unset"
          /\ settings.key = "k"
          /\ builds = <<"googleapiclient.build">>

C6_Witness ==
    /\ KeylessConstruction
    /\ settings.key = ""
    /\ "googleapiclient" \in installed
    /\ result.exc = "ImproperlyConfigured"

\* the input items of the chunks (items) answered before the failure
Completed ==
    IF IsGoogleAPI THEN SubSeq(S, 1, N - Len(strings)) ELSE SubSeq(S, 1, pos - 1)

\* the requests a failed run has issued: the completed ones and the failed
RequestsOfFailedRun ==
    IF IsAmazon THEN Len(out) + 1
    ELSE IF M >= 1 THEN (Len(out) \div M) + 1
    ELSE Len(requests)

\* the state a provider failure leaves
C8_AtFailure ==
    (ProviderFailed /\ (IsGoogleAPI \/ IsAmazon))
    => /\ err = fault
       /\ out = Translated(Completed, lang)
       /\ IsGoogleAPI /\ M >= 1 => Len(out) % M = 0
       /\ Len(requests) = RequestsOfFailedRun
       /\ inflight = NoRequest

(***************************************************************************)
(* C8: when a provider request fails during translate_strings of           *)
(* GoogleAPITranslatorService or AmazonTranslateTranslatorService, the     *)
(* consumer gets the provider's exception itself, has received exactly the *)
(* translations of the chunks (items) completed before, in input order,    *)
(* and nothing of the failed chunk; the failed request is the last one     *)
(* issued, and from then on no request is issued and nothing is produced.  *)
(***************************************************************************)
C8_FailurePropagatesNoRetry ==
    /\ []C8_AtFailure
    /\ [][ProviderFailed => UNCHANGED <<requests, out, err, pc>>]_vars

C8_Witness ==
    /\ ProviderFailed /\ IsGoogleAPI /\ M = 1 /\ N = 3
    /\ Len(out) = 1 /\ Len(requests) = 2
    /\ err = "HttpError"

(***************************************************************************)
(* Vocabulary of the termination properties.                               *)
(***************************************************************************)
\* the generator is over: exhausted, or ended by the provider's exception
Finished == pc \in {"done", "failed"}

\* one pass of `while strings:` has ended: the slice assignment was made
IterationEnds == pc = "yielding" /\ pc' = "loop"

(***************************************************************************)
(* C9 as stated: for every max_segments the constructor accepts (0 and     *)
(* negative values included), each loop iteration of the Google API        *)
(* service strictly shortens the remaining input, and a fully consumed     *)
(* translate_strings terminates.                                           *)
(***************************************************************************)
C9_TerminatesForAnyMaxSegments ==
    /\ [][(IsGoogleAPI /\ IterationEnds) => Len(strings') < Len(strings)]_vars
    /\ (IsGoogleAPI /\ pc = "created") ~> Finished

(***************************************************************************)
(* C9 amended: for every max_segments >= 1, each loop iteration of the     *)
(* Google API service strictly shortens the remaining input, and a fully   *)
(* consumed translate_strings terminates (after at most len(S) requests).  *)
(***************************************************************************)
C9_TerminatesForPositiveMaxSegments ==
    /\ [][(IsGoogleAPI /\ M >= 1 /\ IterationEnds)
            => Len(strings') < Len(strings)]_vars
    /\ (IsGoogleAPI /\ M >= 1 /\ pc = "created") ~> Finished
    /\ []((IsGoogleAPI /\ M >= 1) => Len(requests) <= N)

C9_Witness ==
    /\ IsGoogleAPI /\ M = 1 /\ N = 3 /\ pc = "done"
    /\ Len(requests) = 3 /\ strings = <<>>

(***************************************************************************)
(* C10 as stated: for every backend no provider request is issued before   *)
(* the consumer asks for the first result, and a consumer that has asked   *)
(* for j results has caused at most ceil(j/M) requests of the Google API   *)
(* service (j calls of the Amazon service).                                *)
(***************************************************************************)
C10_LazyForEveryBackend ==
    instance.cls \in Backends
    => /\ asked = 0 => requests = <<>>
       /\ IsGoogleAPI /\ M >= 1 => Len(requests) <= Ceil(asked, M)
       /\ IsAmazon => Len(requests) <= asked

(***************************************************************************)
(* C10 amended: the Google API service (max_segments M >= 1) and the       *)
(* Amazon service issue no provider request before the consumer asks for   *)
(* the first result; the request for chunk k+1 (item i+1) is issued only   *)
(* after every result of chunk k (result i) was handed over; a consumer    *)
(* that has asked for j results has caused at most ceil(j/M) requests      *)
(* (j calls).  GoogleTranslatorService issues its single request inside    *)
(* the translate_strings call, before any result is asked for, and none    *)
(* afterwards.                                                             *)
(***************************************************************************)
C10_LazyGenerators ==
    /\ (IsGoogleAPI /\ M >= 1)
       => /\ Len(requests) <= Ceil(asked, M)
          /\ Len(requests) >= 1 => Len(out) >= (Len(requests) - 1) * M
    /\ IsGoogleAPI => (asked = 0 => requests = <<>>)
    /\ IsAmazon
       => /\ Len(requests) <= asked
          /\ Len(requests) >= 1 => Len(out) >= Len(requests) - 1
    /\ IsGoogle
       => /\ Len(requests) = IF pc = "idle" THEN 0 ELSE 1
          /\ asked = 0 => out = <<>>

C10_Witness ==
    /\ IsGoogleAPI /\ M = 2 /\ N = 3
    /\ pc = "suspended" /\ asked = 3
    /\ Len(out) = 3 /\ Len(requests) = 2

====
